---- MODULE Spec2Model ----
(***************************************************************************)
(* Black-Scholes calculator of src/js/blackscholes.js: the pricing engine, *)
(* the Gamma surface sampler and the input handler that drives them, the   *)
(* About modal of the same file, and the drag-scroll gallery of            *)
(* src/unnamed/part_002.                                                   *)
(*                                                                         *)
(* A JavaScript Number is modelled as a record [nf, v]: nf = "fin" with v  *)
(* the value in millionths (fixed point, truncated toward zero), or one of *)
(* the non-finite values "NaN", "+Inf", "-Inf".  The value undefined has   *)
(* nf = "undefined" and converts to NaN in arithmetic, as ToNumber does.   *)
(* Zero carries no sign: a division by zero takes the sign of its          *)
(* numerator.                                                              *)
(***************************************************************************)
EXTENDS Integers, Sequences, FiniteSets, TLC

SCALE == 10^6

\* ------------------------------------------------------------------------
\* Fixed-point arithmetic on the finite values (integers in millionths)
\* ------------------------------------------------------------------------

IAbs(n) == IF n < 0 THEN -n ELSE n

ISgn(n) == IF n < 0 THEN -1 ELSE IF n > 0 THEN 1 ELSE 0

\* a * b / SCALE for a, b >= 0, exact floor, computed in limbs of 1000 so that
\* no intermediate product leaves 32 bits
MulAbs(a, b) ==
    LET a1 == a \div 1000
        a0 == a % 1000
        b1 == b \div 1000
        b0 == b % 1000
        mid == a1 * b0 + a0 * b1
    IN a1 * b1 + (mid \div 1000) + (((mid % 1000) * 1000 + a0 * b0) \div SCALE)

IMul(a, b) == ISgn(a) * ISgn(b) * MulAbs(IAbs(a), IAbs(b))

\* a * SCALE / b for a >= 0, b > 0 (floor), by long division: the quotient,
\* then the six decimals in steps as wide as the divisor lets a remainder
\* times the step fit 32 bits
DivBy1000(a, b) ==
    LET r0 == a % b
        r1 == (r0 * 1000) % b
    IN (a \div b) * SCALE + ((r0 * 1000) \div b) * 1000 + ((r1 * 1000) \div b)

DivBy100(a, b) ==
    LET r0 == a % b
        r1 == (r0 * 100) % b
        r2 == (r1 * 100) % b
    IN (a \div b) * SCALE + ((r0 * 100) \div b) * 10000
       + ((r1 * 100) \div b) * 100 + ((r2 * 100) \div b)

DivBy10(a, b) ==
    LET r0 == a % b
        r1 == (r0 * 10) % b
        r2 == (r1 * 10) % b
        r3 == (r2 * 10) % b
        r4 == (r3 * 10) % b
        r5 == (r4 * 10) % b
    IN (a \div b) * SCALE + ((r0 * 10) \div b) * 100000 + ((r1 * 10) \div b) * 10000
       + ((r2 * 10) \div b) * 1000 + ((r3 * 10) \div b) * 100
       + ((r4 * 10) \div b) * 10 + ((r5 * 10) \div b)

\* a divisor of 200 or more is cut by one digit, with the dividend
DivAbs(a, b) ==
    IF b < 2 * 10^6 THEN DivBy1000(a, b)
    ELSE IF b < 2 * 10^7 THEN DivBy100(a, b)
    ELSE IF b < 2 * 10^8 THEN DivBy10(a, b)
    ELSE DivBy10(a \div 10, b \div 10)

IDiv(a, b) == ISgn(a) * ISgn(b) * DivAbs(IAbs(a), IAbs(b))

\* Newton's iteration for the square root, from a start above the root
RECURSIVE SqrtIter(_, _)
SqrtIter(a, x) ==
    LET nx == (x + DivAbs(a, x)) \div 2
    IN IF nx >= x THEN x ELSE SqrtIter(a, nx)

\* a power of two above the root of a, at most twice the root up to 16
SqrtStart(a) ==
    IF a < 2500 THEN 50000
    ELSE IF a < 10000 THEN 100000
    ELSE IF a < 40000 THEN 200000
    ELSE IF a < 160000 THEN 400000
    ELSE IF a < 640000 THEN 800000
    ELSE IF a < 2560000 THEN 1600000
    ELSE IF a < 10240000 THEN 3200000
    ELSE (a + SCALE) \div 2 + 1

ISqrt(a) == IF a = 0 THEN 0 ELSE SqrtIter(a, SqrtStart(a))

\* 2^(j/8) for j = 0..7
ExpEighth(j) ==
    CASE j = 0 -> 1000000 [] j = 1 -> 1090508 [] j = 2 -> 1189207
      [] j = 3 -> 1296840 [] j = 4 -> 1414214 [] j = 5 -> 1542211
      [] j = 6 -> 1681793 [] OTHER -> 1834008

\* e^x: x = (8 k + j) (ln 2) / 8 + r with 0 <= r < (ln 2) / 8, so that
\* e^x = 2^k 2^(j/8) e^r, and e^r by its series to r^5 / 120; below e^-14
\* the result is under a millionth
IExp(x) ==
    IF x < -14 * SCALE THEN 0
    ELSE LET n == x \div 86643
             r == x - n * 86643 - ((n * 4) \div 10)
             k == n \div 8
             er == SCALE + MulAbs(r, SCALE + (MulAbs(r, SCALE + (MulAbs(r,
                       SCALE + (MulAbs(r, SCALE + (r \div 5)) \div 4)) \div 3)) \div 2))
             m == MulAbs(ExpEighth(n % 8), er)
         IN IF k >= 0 THEN m * 2^k ELSE m \div 2^(-k)

\* m scaled by powers of two into [0.75, 1.5), with the exponent
RECURSIVE LnNorm(_, _)
LnNorm(m, k) ==
    IF m >= 1500000 THEN LnNorm(m \div 2, k + 1)
    ELSE IF m < 750000 THEN LnNorm(m * 2, k - 1)
    ELSE <<m, k>>

\* ln x for x > 0: x = 2^k m, ln m = 2 atanh((m - 1) / (m + 1))
ILn(x) ==
    LET mk == LnNorm(x, 0)
        m == mk[1]
        z == IDiv(m - SCALE, m + SCALE)
        z2 == MulAbs(IAbs(z), IAbs(z))
        s == SCALE + MulAbs(z2, 333333 + MulAbs(z2, 200000
                 + MulAbs(z2, 142857 + MulAbs(z2, 111111))))
    IN mk[2] * 693147 + 2 * IMul(z, s)

\* ------------------------------------------------------------------------
\* JavaScript Numbers
\* ------------------------------------------------------------------------

Fin(n) == [nf |-> "fin", v |-> n]

NaN == [nf |-> "NaN", v |-> 0]

PosInf == [nf |-> "+Inf", v |-> 0]

NegInf == [nf |-> "-Inf", v |-> 0]

Undefined == [nf |-> "undefined", v |-> 0]

IsFinite(a) == a.nf = "fin"

IsInf(a) == a.nf = "+Inf" \/ a.nf = "-Inf"

\* NaN, and undefined, which converts to it
IsNaN(a) == ~IsFinite(a) /\ ~IsInf(a)

Inf(sgn) == IF sgn < 0 THEN NegInf ELSE PosInf

\* -1, 0 or 1
Sgn(a) == IF a.nf = "+Inf" THEN 1 ELSE IF a.nf = "-Inf" THEN -1 ELSE ISgn(a.v)

Neg(a) ==
    IF IsFinite(a) THEN Fin(-a.v)
    ELSE IF IsInf(a) THEN Inf(-Sgn(a))
    ELSE NaN

Add(a, b) ==
    IF IsFinite(a) /\ IsFinite(b) THEN Fin(a.v + b.v)
    ELSE IF IsNaN(a) \/ IsNaN(b) THEN NaN
    ELSE IF IsInf(a) /\ IsInf(b) THEN (IF a.nf = b.nf THEN a ELSE NaN)
    ELSE IF IsInf(a) THEN a ELSE b

Sub(a, b) == Add(a, Neg(b))

Mul(a, b) ==
    IF IsFinite(a) /\ IsFinite(b) THEN Fin(IMul(a.v, b.v))
    ELSE IF IsNaN(a) \/ IsNaN(b) THEN NaN
    ELSE IF Sgn(a) = 0 \/ Sgn(b) = 0 THEN NaN
    ELSE Inf(Sgn(a) * Sgn(b))

Div(a, b) ==
    IF IsFinite(a) /\ IsFinite(b)
    THEN IF b.v # 0 THEN Fin(IDiv(a.v, b.v))
         ELSE IF a.v = 0 THEN NaN ELSE Inf(ISgn(a.v))
    ELSE IF IsNaN(a) \/ IsNaN(b) THEN NaN
    ELSE IF IsInf(a) /\ IsInf(b) THEN NaN
    ELSE IF IsInf(a) THEN Inf(Sgn(a) * (IF Sgn(b) < 0 THEN -1 ELSE 1))
    ELSE Fin(0)

\* Math.sqrt
Sqrt(a) ==
    IF IsFinite(a) THEN (IF a.v < 0 THEN NaN ELSE Fin(ISqrt(a.v)))
    ELSE IF a.nf = "+Inf" THEN PosInf
    ELSE NaN

\* Math.log
Log(a) ==
    IF IsFinite(a)
    THEN IF a.v < 0 THEN NaN ELSE IF a.v = 0 THEN NegInf ELSE Fin(ILn(a.v))
    ELSE IF a.nf = "+Inf" THEN PosInf
    ELSE NaN

\* Math.exp
Exp(a) ==
    IF IsFinite(a) THEN Fin(IExp(a.v))
    ELSE IF a.nf = "+Inf" THEN PosInf
    ELSE IF a.nf = "-Inf" THEN Fin(0)
    ELSE NaN

\* Math.abs
Abs(a) ==
    IF IsFinite(a) THEN Fin(IAbs(a.v))
    ELSE IF IsInf(a) THEN PosInf
    ELSE NaN

\* Math.pow(a, 2)
Pow2(a) == Mul(a, a)

\* a >= b of two Numbers: false when either is NaN
Geq(a, b) ==
    IF IsFinite(a) /\ IsFinite(b) THEN a.v >= b.v
    ELSE /\ ~IsNaN(a)
         /\ ~IsNaN(b)
         /\ (a.nf = "+Inf" \/ b.nf = "-Inf")

\* Math.max of two Numbers
Max(a, b) ==
    IF IsNaN(a) \/ IsNaN(b) THEN NaN
    ELSE IF Geq(a, b) THEN a ELSE b

\* Math.min of two Numbers
Min(a, b) ==
    IF IsNaN(a) \/ IsNaN(b) THEN NaN
    ELSE IF Geq(a, b) THEN b ELSE a

\* Math.PI
PI == Fin(3141593)

\* ------------------------------------------------------------------------
\* 1. Math helper functions
\* ------------------------------------------------------------------------

\* Math.sqrt(2 * Math.PI)
SqrtTwoPi == Sqrt(Mul(Fin(2 * SCALE), PI))

pdf(x) == Div(Exp(Mul(Mul(Fin(-500000), x), x)), SqrtTwoPi)

a1 == 254830

a2 == -284497

a3 == 1421414

a4 == -1453152

a5 == 1061405

p == 327591

\* cdf had it not saved the sign of x before taking the magnitude
cdf_NoSign(x0) ==
    LET x == Abs(x0)
        t == Div(Fin(SCALE), Add(Fin(SCALE), Mul(Fin(p), x)))
        poly == Mul(Add(Mul(Add(Mul(Add(Mul(Add(Mul(Fin(a5), t), Fin(a4)), t),
                    Fin(a3)), t), Fin(a2)), t), Fin(a1)), t)
        y == Sub(Fin(SCALE), Mul(poly, Exp(Mul(Neg(x), x))))
    IN Mul(Fin(500000), Add(Fin(SCALE), y))

\* cdf: the sign of x, then the polynomial in t of A&S formula 7.1.26 on the
\* magnitude of x
cdf(x0) ==
    LET sign == IF Geq(x0, Fin(0)) THEN Fin(SCALE) ELSE Fin(-SCALE)
        x == Abs(x0)
        t == Div(Fin(SCALE), Add(Fin(SCALE), Mul(Fin(p), x)))
        poly == Mul(Add(Mul(Add(Mul(Add(Mul(Add(Mul(Fin(a5), t), Fin(a4)), t),
                    Fin(a3)), t), Fin(a2)), t), Fin(a1)), t)
        y == Sub(Fin(SCALE), Mul(poly, Exp(Mul(Neg(x), x))))
    IN Mul(Fin(500000), Add(Fin(SCALE), Mul(sign, y)))

\* ------------------------------------------------------------------------
\* The BlackScholes class
\* ------------------------------------------------------------------------

\* calculateD1D2 had it taken the root of the magnitude of T
calculateD1D2_AbsT(this) ==
    LET sigmaSqrtT == Mul(this.sigma, Sqrt(Abs(this.T)))
        d1 == Div(Add(Log(Div(this.S, this.K)),
                      Mul(Add(this.r, Mul(Fin(500000), Pow2(this.sigma))), this.T)),
                  sigmaSqrtT)
        d2 == Sub(d1, sigmaSqrtT)
    IN [this EXCEPT !.d1 = d1, !.d2 = d2]

\* calculateD1D2 of an object with fields S, K, r, T, sigma: the object with
\* d1 and d2 assigned
calculateD1D2(this) ==
    LET sigmaSqrtT == Mul(this.sigma, Sqrt(this.T))
        d1 == Div(Add(Log(Div(this.S, this.K)),
                      Mul(Add(this.r, Mul(Fin(500000), Pow2(this.sigma))), this.T)),
                  sigmaSqrtT)
        d2 == Sub(d1, sigmaSqrtT)
    IN [this EXCEPT !.d1 = d1, !.d2 = d2]

\* The constructor had it stored the five parameters and not called
\* calculateD1D2
BlackScholes_NoD1D2(S, K, r, T, sigma) ==
    [S |-> S, K |-> K, r |-> r, T |-> T, sigma |-> sigma,
     d1 |-> Undefined, d2 |-> Undefined]

\* new BlackScholes(S, K, r, T, sigma)
BlackScholes(S, K, r, T, sigma) ==
    calculateD1D2([S |-> S, K |-> K, r |-> r, T |-> T, sigma |-> sigma,
                   d1 |-> Undefined, d2 |-> Undefined])

callPrice(this) ==
    Sub(Mul(this.S, cdf(this.d1)),
        Mul(Mul(this.K, Exp(Mul(Neg(this.r), this.T))), cdf(this.d2)))

\* putPrice had it used the upper tails cdf(d2) and cdf(d1) of callPrice
putPrice_UpperTails(this) ==
    Sub(Mul(Mul(this.K, Exp(Mul(Neg(this.r), this.T))), cdf(this.d2)),
        Mul(this.S, cdf(this.d1)))

putPrice(this) ==
    Sub(Mul(Mul(this.K, Exp(Mul(Neg(this.r), this.T))), cdf(Neg(this.d2))),
        Mul(this.S, cdf(Neg(this.d1))))

deltaCall(this) == cdf(this.d1)

deltaPut(this) == Sub(cdf(this.d1), Fin(SCALE))

gamma(this) ==
    Div(pdf(this.d1), Mul(Mul(this.S, this.sigma), Sqrt(this.T)))

vega(this) ==
    Div(Mul(Mul(this.S, pdf(this.d1)), Sqrt(this.T)), Fin(100 * SCALE))

thetaCall(this) ==
    LET t1 == Div(Neg(Mul(Mul(this.S, pdf(this.d1)), this.sigma)),
                  Mul(Fin(2 * SCALE), Sqrt(this.T)))
        t2 == Mul(Mul(Mul(Neg(this.r), this.K), Exp(Mul(Neg(this.r), this.T))),
                  cdf(this.d2))
    IN Div(Add(t1, t2), Fin(365 * SCALE))

rhoCall(this) ==
    Div(Mul(Mul(Mul(this.K, this.T), Exp(Mul(Neg(this.r), this.T))), cdf(this.d2)),
        Fin(100 * SCALE))

\* ------------------------------------------------------------------------
\* 3. The surface sampler
\* ------------------------------------------------------------------------

rangePct == 500000

stepsS == 30

stepsT == 30

\* The steps of the two axes: minS, stepSizeS and stepSizeT
SurfaceSteps(currentS, currentT) ==
    LET minS == Mul(currentS, Sub(Fin(SCALE), Fin(rangePct)))
        maxS == Mul(currentS, Add(Fin(SCALE), Fin(rangePct)))
        maxT == Max(Mul(currentT, Fin(1500000)), Fin(SCALE))
    IN [minS |-> minS,
        stepSizeS |-> Div(Sub(maxS, minS), Fin(stepsS * SCALE)),
        stepSizeT |-> Div(maxT, Fin(stepsT * SCALE))]

\* t_val had it started the axis at zero
t_val_FromZero(st, i) == Mul(Fin(i * SCALE), st.stepSizeT)

\* t_val of row i and s_val of column j
t_val(st, i) == Add(Fin(10000), Mul(Fin(i * SCALE), st.stepSizeT))

s_val(st, j) == Add(st.minS, Mul(Fin(j * SCALE), st.stepSizeS))

\* The passes <<i, j>> of the two nested loops, in the order they run
LoopPasses ==
    [n \in 1..((stepsT + 1) * (stepsS + 1)) |->
        <<(n - 1) \div (stepsS + 1), (n - 1) % (stepsS + 1)>>]

\* bs_temp of pass <<i, j>>
bs_temp(st, K, r, sigma, i, j) ==
    BlackScholes(s_val(st, j), K, r, t_val(st, i), sigma)

\* generateSurfaceData had it run the spot loop outside the time loop, so that
\* rows are spots and columns are times
generateSurfaceData_Transposed(currentS, K, r, currentT, sigma) ==
    LET st == SurfaceSteps(currentS, currentT)
        xPushes == SelectSeq(LoopPasses, LAMBDA ij : ij[1] = 0)
    IN [x |-> [n \in 1..Len(xPushes) |-> s_val(st, xPushes[n][2])],
        y |-> [i \in 1..(stepsT + 1) |-> t_val(st, i - 1)],
        z |-> [i \in 1..(stepsS + 1) |->
                 [j \in 1..(stepsT + 1) |->
                     gamma(bs_temp(st, K, r, sigma, j - 1, i - 1))]]]

\* generateSurfaceData had it pushed s_val to x_data on every row
generateSurfaceData_XPerRow(currentS, K, r, currentT, sigma) ==
    LET st == SurfaceSteps(currentS, currentT)
    IN [x |-> [n \in 1..Len(LoopPasses) |-> s_val(st, LoopPasses[n][2])],
        y |-> [i \in 1..(stepsT + 1) |-> t_val(st, i - 1)],
        z |-> [i \in 1..(stepsT + 1) |->
                 [j \in 1..(stepsS + 1) |->
                     gamma(bs_temp(st, K, r, sigma, i - 1, j - 1))]]]

\* generateSurfaceData: the outer loop pushes t_val to y_data and a row to
\* z_data, the inner loop pushes s_val to x_data (on the first row only) and
\* the Gamma of bs_temp to the row
generateSurfaceData(currentS, K, r, currentT, sigma) ==
    LET st == SurfaceSteps(currentS, currentT)
        xPushes == SelectSeq(LoopPasses, LAMBDA ij : ij[1] = 0)
    IN [x |-> [n \in 1..Len(xPushes) |-> s_val(st, xPushes[n][2])],
        y |-> [i \in 1..(stepsT + 1) |-> t_val(st, i - 1)],
        z |-> [i \in 1..(stepsT + 1) |->
                 [j \in 1..(stepsS + 1) |->
                     gamma(bs_temp(st, K, r, sigma, i - 1, j - 1))]]]

\* ------------------------------------------------------------------------
\* 2. Application state and interaction
\* ------------------------------------------------------------------------

VARIABLES
    inputs,     \* the value of each of the five controls, a string
    displays,   \* the text of the five echo elements
    metrics,    \* the text of the seven metric elements
    chart,      \* the data of the plot in plot-container
    calls,      \* the price and Greek calls of the last updateAll on its object bs
    domLoaded,  \* whether DOMContentLoaded has fired
    args,       \* the arguments S, K, r, T, sigma of a call made on the engine alone
    instance,   \* the object that new BlackScholes(args) has returned
    results,    \* what each method called on instance has returned
    cdfArg,     \* the argument x of calls made on cdf alone
    cdfResults, \* what cdf has returned for x and for -x
    objects,    \* the two objects of a client that compares their results
    returned,   \* the calls that client has made: receiver, method, value
    modalDisplay,   \* modal.style.display
    dataLoaded,     \* the data-loaded attribute of the modal body
    modalBodyHTML,  \* what modalBody.innerHTML holds
    pending,        \* the fetches whose promise has not settled
    outcomes,       \* how each settled fetch ended, oldest first
    lastEvent,      \* the handler or promise callback that ran last
    dataset,    \* gallery.dataset: the data attributes of the gallery element
    handled     \* the pointer handler of the gallery that ran last

pageVars == <<inputs, displays, metrics, chart, calls, domLoaded>>

engineVars == <<args, instance, results, cdfArg, cdfResults>>

pairVars == <<objects, returned>>

modalVars == <<modalDisplay, dataLoaded, modalBodyHTML, pending, outcomes,
               lastEvent>>

galleryVars == <<dataset, handled>>

vars == <<inputs, displays, metrics, chart, calls, domLoaded,
          args, instance, results, cdfArg, cdfResults,
          objects, returned,
          modalDisplay, dataLoaded, modalBodyHTML, pending, outcomes, lastEvent,
          dataset, handled>>

Controls == {"S", "K", "sigma", "r", "T"}

\* The value of a control is a string: the numeral of n millionths, or the
\* empty string of a control that has been cleared
Numeral(n) == [numeral |-> TRUE, v |-> n]

EmptyString == [numeral |-> FALSE, v |-> 0]

\* The values the controls take in the model
ControlValues ==
    [S |-> {Numeral(100 * SCALE), Numeral(120 * SCALE), EmptyString},
     K |-> {Numeral(100 * SCALE), Numeral(90 * SCALE)},
     sigma |-> {Numeral(200000), Numeral(500000)},
     r |-> {Numeral(50000), EmptyString},
     T |-> {Numeral(SCALE), Numeral(250000), EmptyString}]

\* parseFloat of the value of a control: NaN when no numeral starts it
parseFloat(value) == IF value.numeral THEN Fin(value.v) ELSE NaN

\* The text an element shows for a Number assigned to its innerText
innerText(a) == [nf |-> a.nf, v |-> a.v, dp |-> 6]

\* Number.prototype.toFixed(dp): rounded to dp decimals, half away from zero;
\* the non-finite values print as themselves
toFixed(a, dp) ==
    IF IsFinite(a)
    THEN [nf |-> "fin",
          v |-> ISgn(a.v) * ((IAbs(a.v) + (10^(6 - dp) \div 2)) \div 10^(6 - dp)),
          dp |-> dp]
    ELSE [nf |-> (IF IsNaN(a) THEN "NaN" ELSE a.nf), v |-> 0, dp |-> 0]

\* The text of an element nothing has been written to
Blank == [nf |-> "", v |-> 0, dp |-> 0]

\* updateChart: Plotly.react replaces the data of the plot by the new trace
updateChart(S, K, r, T, sigma) ==
    chart' = generateSurfaceData(S, K, r, T, sigma)

\* updateAll had it ended before step 4, the update of the surface plot
updateAll_NoChart(vals) ==
    LET S == parseFloat(vals.S)
        K == parseFloat(vals.K)
        sigma == parseFloat(vals.sigma)
        r == parseFloat(vals.r)
        T == parseFloat(vals.T)
        bs == BlackScholes(S, K, r, T, sigma)
    IN /\ displays' = [S |-> innerText(S), K |-> innerText(K),
                       sigma |-> toFixed(sigma, 2), r |-> toFixed(r, 3),
                       T |-> toFixed(T, 2)]
       /\ metrics' = [call |-> toFixed(callPrice(bs), 2),
                      put |-> toFixed(putPrice(bs), 2),
                      delta |-> toFixed(deltaCall(bs), 4),
                      gamma |-> toFixed(gamma(bs), 4),
                      theta |-> toFixed(thetaCall(bs), 4),
                      vega |-> toFixed(vega(bs), 4),
                      rho |-> toFixed(rhoCall(bs), 4)]
       /\ calls' = {[op |-> op, this |-> bs] :
                       op \in {"callPrice", "putPrice", "deltaCall", "gamma",
                               "thetaCall", "vega", "rhoCall"}}
       /\ chart' = chart

\* updateAll, reading the controls' values vals
updateAll(vals) ==
    LET S == parseFloat(vals.S)
        K == parseFloat(vals.K)
        sigma == parseFloat(vals.sigma)
        r == parseFloat(vals.r)
        T == parseFloat(vals.T)
        bs == BlackScholes(S, K, r, T, sigma)
    IN /\ displays' = [S |-> innerText(S), K |-> innerText(K),
                       sigma |-> toFixed(sigma, 2), r |-> toFixed(r, 3),
                       T |-> toFixed(T, 2)]
       /\ metrics' = [call |-> toFixed(callPrice(bs), 2),
                      put |-> toFixed(putPrice(bs), 2),
                      delta |-> toFixed(deltaCall(bs), 4),
                      gamma |-> toFixed(gamma(bs), 4),
                      theta |-> toFixed(thetaCall(bs), 4),
                      vega |-> toFixed(vega(bs), 4),
                      rho |-> toFixed(rhoCall(bs), 4)]
       /\ calls' = {[op |-> op, this |-> bs] :
                       op \in {"callPrice", "putPrice", "deltaCall", "gamma",
                               "thetaCall", "vega", "rhoCall"}}
       /\ updateChart(S, K, r, T, sigma)

\* The names of the price and Greek methods
Methods ==
    {"callPrice", "putPrice", "deltaCall", "deltaPut", "gamma", "vega",
     "thetaCall", "rhoCall"}

\* What method op returns on this
Invoke(op, this) ==
    CASE op = "callPrice" -> callPrice(this)
      [] op = "putPrice" -> putPrice(this)
      [] op = "deltaCall" -> deltaCall(this)
      [] op = "deltaPut" -> deltaPut(this)
      [] op = "gamma" -> gamma(this)
      [] op = "vega" -> vega(this)
      [] op = "thetaCall" -> thetaCall(this)
      [] OTHER -> rhoCall(this)

\* No arguments given, no object constructed, no value returned yet
NoArgs == [given |-> FALSE]

NoObject == [constructed |-> FALSE]

NotCalled == [nf |-> "not called", v |-> 0]

\* The page once the script has run: the controls at their defaults, nothing
\* displayed, no plot
PageInit ==
    /\ inputs = [S |-> Numeral(100 * SCALE), K |-> Numeral(100 * SCALE),
                 sigma |-> Numeral(200000), r |-> Numeral(50000),
                 T |-> Numeral(SCALE)]
    /\ displays = [c \in Controls |-> Blank]
    /\ metrics = [m \in {"call", "put", "delta", "gamma", "theta", "vega", "rho"}
                    |-> Blank]
    /\ chart = [x |-> <<>>, y |-> <<>>, z |-> <<>>]
    /\ calls = {}
    /\ domLoaded = FALSE

\* Nothing called on the engine alone
EngineIdle ==
    /\ instance = NoObject
    /\ results = [op \in Methods |-> NotCalled]
    /\ cdfArg = NaN
    /\ cdfResults = [x |-> NotCalled, negx |-> NotCalled]

\* No object of a comparing client constructed, none of its calls made
PairIdle ==
    /\ objects = [o \in {1, 2} |-> NoObject]
    /\ returned = {}

\* An attribute an element does not have, for which getAttribute returns
\* null, and an attribute with a value
NoAttribute == [present |-> FALSE]

Attribute(value) == [present |-> TRUE, value |-> value]

\* The About modal once the script has run: no inline display, the body as
\* the document wrote it and without a data-loaded attribute, nothing fetched
ModalInit ==
    /\ modalDisplay = ""
    /\ dataLoaded = NoAttribute
    /\ modalBodyHTML = "document"
    /\ pending = 0
    /\ outcomes = <<>>
    /\ lastEvent = "load"

\* The gallery element as the document declares it: data-mouse-down-at and
\* data-prev-percentage are "0", there is no data-percentage
GalleryInit ==
    /\ dataset = [mouseDownAt |-> Attribute(Numeral(0)),
                  prevPercentage |-> Attribute(Numeral(0)),
                  percentage |-> NoAttribute]
    /\ handled = "none"

Init ==
    /\ PageInit
    /\ args = NoArgs
    /\ EngineIdle
    /\ PairIdle
    /\ ModalInit
    /\ GalleryInit

\* The DOMContentLoaded listener: initChart draws a dummy plot, whose data
\* updateAll replaces before the listener returns
DOMContentLoaded ==
    /\ ~domLoaded
    /\ domLoaded' = TRUE
    /\ updateAll(inputs)
    /\ UNCHANGED inputs
    /\ UNCHANGED engineVars
    /\ UNCHANGED <<pairVars, modalVars, galleryVars>>

\* An input event of control c, whose value has become v: updateAll
InputEvent(c, v) ==
    /\ v # inputs[c]
    /\ inputs' = [inputs EXCEPT ![c] = v]
    /\ updateAll(inputs')
    /\ UNCHANGED domLoaded
    /\ UNCHANGED engineVars
    /\ UNCHANGED <<pairVars, modalVars, galleryVars>>

Next ==
    \/ DOMContentLoaded
    \/ \E c \in Controls : \E v \in ControlValues[c] : InputEvent(c, v)

Spec == Init /\ [][Next]_vars

\* ------------------------------------------------------------------------
\* The surface sampler called on its own, for arguments of every kind
\* ------------------------------------------------------------------------

SurfaceArgs ==
    [S : {Fin(80 * SCALE), Fin(100 * SCALE), Fin(120 * SCALE)},
     K : {Fin(100 * SCALE), Fin(90 * SCALE)},
     r : {Fin(50000)},
     T : {Fin(-SCALE), Fin(0), Fin(1000), Fin(250000), Fin(SCALE),
          Fin(2 * SCALE), NaN},
     sigma : {Fin(200000), Fin(500000)}]

SurfaceInit ==
    /\ PageInit
    /\ args \in SurfaceArgs
    /\ EngineIdle
    /\ PairIdle
    /\ ModalInit
    /\ GalleryInit

\* generateSurfaceData(args), its return value kept where updateChart puts it
Sample ==
    /\ chart.z = <<>>
    /\ chart' = generateSurfaceData(args.S, args.K, args.r, args.T, args.sigma)
    /\ UNCHANGED <<inputs, displays, metrics, calls, domLoaded>>
    /\ UNCHANGED engineVars
    /\ UNCHANGED <<pairVars, modalVars, galleryVars>>

SurfaceNext == Sample

SpecSurface == SurfaceInit /\ [][SurfaceNext]_vars

\* ------------------------------------------------------------------------
\* The class on its own: construction, then any method in any order
\* ------------------------------------------------------------------------

\* Arguments the formulas are meant for
ValidArgs ==
    [S : {Fin(100 * SCALE), Fin(110 * SCALE)},
     K : {Fin(100 * SCALE)},
     r : {Fin(50000), Fin(-20000)},
     T : {Fin(SCALE), Fin(500000)},
     sigma : {Fin(200000), Fin(400000)}]

\* The same with one field not a number, with T or sigma zero or negative,
\* or with both T and sigma zero
InvalidArgs ==
    UNION {{[a EXCEPT !.S = NaN], [a EXCEPT !.K = NaN], [a EXCEPT !.r = NaN],
            [a EXCEPT !.T = NaN], [a EXCEPT !.sigma = NaN],
            [a EXCEPT !.T = Fin(0)], [a EXCEPT !.T = Fin(-SCALE)],
            [a EXCEPT !.sigma = Fin(0)], [a EXCEPT !.sigma = Fin(-200000)],
            [a EXCEPT !.T = Fin(0), !.sigma = Fin(0)]} : a \in ValidArgs}

EngineArgs == ValidArgs \cup InvalidArgs

EngineInit ==
    /\ PageInit
    /\ args \in EngineArgs
    /\ EngineIdle
    /\ PairIdle
    /\ ModalInit
    /\ GalleryInit

\* new BlackScholes(S, K, r, T, sigma)
Construct ==
    /\ instance = NoObject
    /\ instance' = BlackScholes(args.S, args.K, args.r, args.T, args.sigma)
    /\ UNCHANGED <<args, results, cdfArg, cdfResults>>
    /\ UNCHANGED pageVars
    /\ UNCHANGED <<pairVars, modalVars, galleryVars>>

\* instance.op()
Call(op) ==
    /\ instance # NoObject
    /\ results' = [results EXCEPT ![op] = Invoke(op, instance)]
    /\ UNCHANGED <<args, instance, cdfArg, cdfResults>>
    /\ UNCHANGED pageVars
    /\ UNCHANGED <<pairVars, modalVars, galleryVars>>

EngineNext ==
    \/ Construct
    \/ \E op \in Methods : Call(op)

SpecEngine == EngineInit /\ [][EngineNext]_vars

\* ------------------------------------------------------------------------
\* cdf on its own
\* ------------------------------------------------------------------------

\* -4.0 to 4.0 in steps of 0.2, zero among them, and the two infinities
CdfArgs == {Fin(n * 200000) : n \in -20..20} \cup {PosInf, NegInf}

CdfInit ==
    /\ PageInit
    /\ args = NoArgs
    /\ instance = NoObject
    /\ results = [op \in Methods |-> NotCalled]
    /\ cdfArg \in CdfArgs
    /\ cdfResults = [x |-> NotCalled, negx |-> NotCalled]
    /\ PairIdle
    /\ ModalInit
    /\ GalleryInit

\* cdf(x)
CdfOfX ==
    /\ cdfResults' = [cdfResults EXCEPT !.x = cdf(cdfArg)]
    /\ UNCHANGED <<args, instance, results, cdfArg>>
    /\ UNCHANGED pageVars
    /\ UNCHANGED <<pairVars, modalVars, galleryVars>>

\* cdf(-x)
CdfOfNegX ==
    /\ cdfResults' = [cdfResults EXCEPT !.negx = cdf(Neg(cdfArg))]
    /\ UNCHANGED <<args, instance, results, cdfArg>>
    /\ UNCHANGED pageVars
    /\ UNCHANGED <<pairVars, modalVars, galleryVars>>

CdfNext == CdfOfX \/ CdfOfNegX

SpecCdf == CdfInit /\ [][CdfNext]_vars

\* ------------------------------------------------------------------------
\* Two objects of the class side by side, with evaluations of other objects
\* in between
\* ------------------------------------------------------------------------

\* The calls whose return values are kept for comparison
MaxCalls == 3

\* What the two objects are built from: an option in the money, and one at
\* the money and at expiry, where d1 is 0 / 0
PairArgs ==
    {[S |-> Fin(110 * SCALE), K |-> Fin(100 * SCALE), r |-> Fin(50000),
      T |-> Fin(SCALE), sigma |-> Fin(200000)],
     [S |-> Fin(100 * SCALE), K |-> Fin(100 * SCALE), r |-> Fin(50000),
      T |-> Fin(0), sigma |-> Fin(200000)]}

\* What the objects evaluated in between are built from
OtherArgs ==
    {[S |-> Fin(90 * SCALE), K |-> Fin(100 * SCALE), r |-> Fin(-20000),
      T |-> Fin(500000), sigma |-> Fin(400000)]}

PairInit ==
    /\ PageInit
    /\ args = NoArgs
    /\ EngineIdle
    /\ PairIdle
    /\ ModalInit
    /\ GalleryInit

\* objects[o] = new BlackScholes(a.S, a.K, a.r, a.T, a.sigma)
Build(o, a) ==
    /\ objects[o] = NoObject
    /\ objects' = [objects EXCEPT
                     ![o] = [constructed |-> TRUE, args |-> a,
                             this |-> BlackScholes(a.S, a.K, a.r, a.T, a.sigma)]]
    /\ UNCHANGED returned
    /\ UNCHANGED <<pageVars, engineVars, modalVars, galleryVars>>

\* A method that stored what it returns in this.d1
PairCall_StoresD1(o, op) ==
    /\ objects[o] # NoObject
    /\ Cardinality(returned) < MaxCalls
    /\ LET value == Invoke(op, objects[o].this)
       IN /\ returned' = returned \cup {[object |-> o, args |-> objects[o].args,
                                          op |-> op, value |-> value]}
          /\ objects' = [objects EXCEPT ![o].this.d1 = value]
    /\ UNCHANGED <<pageVars, engineVars, modalVars, galleryVars>>

\* objects[o].op(): the methods read the fields of this and assign none
PairCall(o, op) ==
    /\ objects[o] # NoObject
    /\ Cardinality(returned) < MaxCalls
    /\ LET value == Invoke(op, objects[o].this)
       IN /\ returned' = returned \cup {[object |-> o, args |-> objects[o].args,
                                          op |-> op, value |-> value]}
          /\ objects' = objects
    /\ UNCHANGED <<pageVars, engineVars, modalVars, galleryVars>>

\* new BlackScholes(a.S, a.K, a.r, a.T, a.sigma).op() on an object that is
\* dropped afterwards, object 0 in the calls kept: the constructor and the
\* methods assign fields of this alone, cdf and pdf locals alone
Evaluate(a, op) ==
    /\ Cardinality(returned) < MaxCalls
    /\ LET temp == BlackScholes(a.S, a.K, a.r, a.T, a.sigma)
       IN returned' = returned \cup {[object |-> 0, args |-> a, op |-> op,
                                       value |-> Invoke(op, temp)]}
    /\ UNCHANGED objects
    /\ UNCHANGED <<pageVars, engineVars, modalVars, galleryVars>>

PairNext ==
    \/ \E o \in {1, 2}, a \in PairArgs : Build(o, a)
    \/ \E o \in {1, 2}, op \in Methods : PairCall(o, op)
    \/ \E a \in OtherArgs, op \in Methods : Evaluate(a, op)

SpecPair == PairInit /\ [][PairNext]_vars

\* ------------------------------------------------------------------------
\* The About modal: clicks, and the settling of the fetches they started
\* ------------------------------------------------------------------------

\* The fetches a behaviour starts
MaxFetches == 3

\* What a click can land on as far as window.onclick tells: the modal's
\* backdrop or anything else
ClickTargets == {"modal", "document"}

\* The fetches started so far, and those whose markdown was rendered
Fetches == pending + Len(outcomes)

Renders == Cardinality({i \in 1..Len(outcomes) : outcomes[i] = "success"})

ModalPageInit ==
    /\ PageInit
    /\ args = NoArgs
    /\ EngineIdle
    /\ PairIdle
    /\ ModalInit
    /\ GalleryInit

\* loadMarkdownContent: returns at once if data-loaded is 'true', starts a
\* fetch otherwise
loadMarkdownContent ==
    IF dataLoaded = Attribute("true")
    THEN pending' = pending
    ELSE pending' = pending + 1

\* btn.onclick
AboutClick ==
    /\ dataLoaded = Attribute("true") \/ Fetches < MaxFetches
    /\ modalDisplay' = "block"
    /\ loadMarkdownContent
    /\ lastEvent' = "about"
    /\ UNCHANGED <<dataLoaded, modalBodyHTML, outcomes>>
    /\ UNCHANGED <<pageVars, engineVars, pairVars, galleryVars>>

\* span.onclick
CloseClick ==
    /\ modalDisplay' = "none"
    /\ lastEvent' = "close"
    /\ UNCHANGED <<dataLoaded, modalBodyHTML, pending, outcomes>>
    /\ UNCHANGED <<pageVars, engineVars, pairVars, galleryVars>>

\* window.onclick for a click on target
WindowClick(target) ==
    /\ modalDisplay' = IF target = "modal" THEN "none" ELSE modalDisplay
    /\ lastEvent' = "window"
    /\ UNCHANGED <<dataLoaded, modalBodyHTML, pending, outcomes>>
    /\ UNCHANGED <<pageVars, engineVars, pairVars, galleryVars>>

\* A fetch and its response.text() fulfil and the second then callback runs
\* to its end: the markdown is rendered and data-loaded set
FetchFulfilled ==
    /\ pending > 0
    /\ pending' = pending - 1
    /\ modalBodyHTML' = "markdown"
    /\ dataLoaded' = Attribute("true")
    /\ outcomes' = Append(outcomes, "success")
    /\ lastEvent' = "then"
    /\ UNCHANGED modalDisplay
    /\ UNCHANGED <<pageVars, engineVars, pairVars, galleryVars>>

\* A fetch or its response.text() rejects, or the then callback throws: the
\* catch callback writes the error message
FetchRejected ==
    /\ pending > 0
    /\ pending' = pending - 1
    /\ modalBodyHTML' = "error"
    /\ outcomes' = Append(outcomes, "failure")
    /\ lastEvent' = "catch"
    /\ UNCHANGED <<modalDisplay, dataLoaded>>
    /\ UNCHANGED <<pageVars, engineVars, pairVars, galleryVars>>

ModalNext ==
    \/ AboutClick
    \/ CloseClick
    \/ \E target \in ClickTargets : WindowClick(target)
    \/ FetchFulfilled
    \/ FetchRejected

SpecModal == ModalPageInit /\ [][ModalNext]_vars

\* ------------------------------------------------------------------------
\* The drag-scroll gallery: down, move and up of the mouse or of a finger
\* ------------------------------------------------------------------------

\* clientX of the events, in pixels, and window.innerWidth when they arrive
ClientXs == {0, 100, 300, 600}

InnerWidths == {800, 1000}

\* The string a data attribute holds once a Number or undefined has been
\* assigned to it; a string is assigned as it is
DOMString(a) ==
    IF "numeral" \in DOMAIN a THEN a
    ELSE IF IsFinite(a) THEN Numeral(a.v)
    ELSE [numeral |-> FALSE, v |-> 0, text |-> a.nf]

\* gallery.dataset[name]: the string of the attribute, undefined without it
DataGet(name) ==
    IF dataset[name] = NoAttribute THEN Undefined ELSE dataset[name].value

GalleryPageInit ==
    /\ PageInit
    /\ args = NoArgs
    /\ EngineIdle
    /\ PairIdle
    /\ ModalInit
    /\ GalleryInit

\* handleOnDown(e) with e.clientX = clientX pixels
handleOnDown(clientX) ==
    /\ dataset' = [dataset EXCEPT
                     !.mouseDownAt = Attribute(DOMString(Fin(clientX * SCALE)))]
    /\ handled' = "down"
    /\ UNCHANGED <<pageVars, engineVars, pairVars, modalVars>>

\* handleOnUp()
handleOnUp ==
    /\ dataset' = [dataset EXCEPT
                     !.mouseDownAt = Attribute(Numeral(0)),
                     !.prevPercentage = Attribute(DOMString(DataGet("percentage")))]
    /\ handled' = "up"
    /\ UNCHANGED <<pageVars, engineVars, pairVars, modalVars>>

\* handleOnMove(e) with e.clientX = clientX pixels in a window innerWidth
\* pixels wide; the animations it starts read nextPercentage and write no
\* attribute
handleOnMove(clientX, innerWidth) ==
    /\ IF DataGet("mouseDownAt") = Numeral(0)
       THEN UNCHANGED dataset
       ELSE LET mouseDelta == Sub(parseFloat(DataGet("mouseDownAt")),
                                  Fin(clientX * SCALE))
                maxDelta == Div(Fin(innerWidth * SCALE), Fin(2 * SCALE))
                percentage == Mul(Div(mouseDelta, maxDelta), Fin(-100 * SCALE))
                nexP1 == Add(parseFloat(DataGet("prevPercentage")), percentage)
                nextPercentage == Max(Min(nexP1, Fin(0)), Fin(-100 * SCALE))
            IN dataset' = [dataset EXCEPT
                             !.percentage = Attribute(DOMString(nextPercentage))]
    /\ handled' = "move"
    /\ UNCHANGED <<pageVars, engineVars, pairVars, modalVars>>

\* window.onmousedown and window.ontouchstart, the latter with touches[0]
MouseDown(clientX) == handleOnDown(clientX)

TouchStart(clientX) == handleOnDown(clientX)

\* window.onmouseup and window.ontouchend: handleOnUp takes no parameter, so
\* the touches[0] passed, undefined when the last finger has lifted, is unused
MouseUp == handleOnUp

TouchEnd == handleOnUp

\* window.onmousemove and window.ontouchmove, the latter with touches[0]
MouseMove(clientX, innerWidth) == handleOnMove(clientX, innerWidth)

TouchMove(clientX, innerWidth) == handleOnMove(clientX, innerWidth)

GalleryNext ==
    \/ \E clientX \in ClientXs : MouseDown(clientX)
    \/ \E clientX \in ClientXs : TouchStart(clientX)
    \/ MouseUp
    \/ TouchEnd
    \/ \E clientX \in ClientXs, innerWidth \in InnerWidths :
          MouseMove(clientX, innerWidth)
    \/ \E clientX \in ClientXs, innerWidth \in InnerWidths :
          TouchMove(clientX, innerWidth)

SpecGallery == GalleryPageInit /\ [][GalleryNext]_vars

\* ------------------------------------------------------------------------
\* Properties
\* ------------------------------------------------------------------------

\* a and b are numbers no more than tol millionths apart
Within(a, b, tol) ==
    /\ IsFinite(a)
    /\ IsFinite(b)
    /\ IAbs(a.v - b.v) <= tol

\* The five values updateAll reads from the controls as they are now
Snapshot == [c \in Controls |-> parseFloat(inputs[c])]

\* d1 and d2 of this are set, and are what calculateD1D2 yields for the
\* S, K, r, T and sigma this has now
D1D2Current(this) ==
    /\ this.d1 # Undefined
    /\ this.d2 # Undefined
    /\ this.d1 = calculateD1D2(this).d1
    /\ this.d2 = calculateD1D2(this).d2

\* C1: whenever a price or Greek method is called, in updateAll or in a pass
\* of the grid loop, the receiver's d1 and d2 are the values calculateD1D2
\* yields for the receiver's S, K, r, T and sigma, and these are the values
\* of the evaluation in progress: the receivers of updateAll's calls carry the
\* snapshot of the controls, the receiver of pass <<i, j>> carries the spot
\* of column j and the time of row i
C1_D1D2Current ==
    /\ \A c \in calls :
          /\ D1D2Current(c.this)
          /\ \A f \in Controls : c.this[f] = Snapshot[f]
    /\ chart.z # <<>> =>
          LET st == SurfaceSteps(Snapshot.S, Snapshot.T)
          IN \A i \in 1..(stepsT + 1) : \A j \in 1..(stepsS + 1) :
                LET this == bs_temp(st, Snapshot.K, Snapshot.r, Snapshot.sigma,
                                    i - 1, j - 1)
                IN /\ D1D2Current(this)
                   /\ this.S = chart.x[j]
                   /\ this.T = chart.y[i]

\* Some input events later, gamma is called on an object with finite d1 built
\* at the spot the control was moved to, and the grid loop has run
C1_Witness ==
    /\ \E c \in calls :
          /\ c.op = "gamma"
          /\ c.this.S = Fin(120 * SCALE)
          /\ c.this.T = Fin(250000)
          /\ IsFinite(c.this.d1)
    /\ Len(chart.z) = stepsT + 1

\* C2: generateSurfaceData returns x of length 31, y of length 31 and z of 31
\* rows of length 31, and z[i][j] is the gamma of a fresh BlackScholes at spot
\* x[j] and time y[i], with the K, r and sigma of the call
C2_SurfaceShape ==
    chart.z # <<>> =>
        /\ Len(chart.x) = 31
        /\ Len(chart.y) = 31
        /\ Len(chart.z) = 31
        /\ \A i \in 1..31 : Len(chart.z[i]) = 31
        /\ \A i \in 1..31 : \A j \in 1..31 :
              chart.z[i][j] =
                  gamma(BlackScholes(chart.x[j], args.K, args.r, chart.y[i],
                                     args.sigma))

\* A surface has been sampled whose Gamma is finite and differs from corner
\* to corner and across the diagonal
C2_Witness ==
    /\ Len(chart.z) = 31
    /\ IsFinite(chart.z[16][16])
    /\ chart.z[1][31] # chart.z[31][1]
    /\ chart.z[16][16].v > 0

\* C3, as claimed: the time axis y is 31 evenly spaced points, the first 0.01
\* and the last max(T * 1.5, 1.0) (to within the rounding of the 30 steps)
C3_TimeAxisSpan ==
    (chart.z # <<>> /\ IsFinite(args.T)) =>
        /\ Len(chart.y) = 31
        /\ chart.y[1] = Fin(10000)
        /\ Within(chart.y[31], Max(Mul(args.T, Fin(1500000)), Fin(SCALE)), stepsT)
        /\ \A i \in 1..29 :
              chart.y[i + 1].v - chart.y[i].v = chart.y[i + 2].v - chart.y[i + 1].v

\* C4: for S > 0 the spot axis x is 31 evenly spaced points, the first 0.5 * S
\* and the last 1.5 * S (to within the rounding of the 30 steps), and it is
\* filled once, not once per row
C4_SpotAxisSpan ==
    (chart.z # <<>> /\ IsFinite(args.S) /\ args.S.v > 0) =>
        /\ Len(chart.x) = 31
        /\ chart.x[1] = Mul(args.S, Fin(500000))
        /\ Within(chart.x[31], Mul(args.S, Fin(1500000)), stepsS)
        /\ \A j \in 1..29 :
              chart.x[j + 1].v - chart.x[j].v = chart.x[j + 2].v - chart.x[j + 1].v
        /\ chart.x[2].v > chart.x[1].v

\* A surface has been sampled around a spot whose thirtieth is not a whole
\* number of millionths
C4_Witness ==
    /\ Len(chart.x) = 31
    /\ args.S = Fin(100 * SCALE)
    /\ chart.x[31] # Mul(args.S, Fin(1500000))

\* What updateAll displays when it reads vals
Evaluation(vals) ==
    LET S == parseFloat(vals.S)
        K == parseFloat(vals.K)
        sigma == parseFloat(vals.sigma)
        r == parseFloat(vals.r)
        T == parseFloat(vals.T)
        fresh == BlackScholes(S, K, r, T, sigma)
    IN [displays |-> [S |-> innerText(S), K |-> innerText(K),
                      sigma |-> toFixed(sigma, 2), r |-> toFixed(r, 3),
                      T |-> toFixed(T, 2)],
        metrics |-> [call |-> toFixed(callPrice(fresh), 2),
                     put |-> toFixed(putPrice(fresh), 2),
                     delta |-> toFixed(deltaCall(fresh), 4),
                     gamma |-> toFixed(gamma(fresh), 4),
                     theta |-> toFixed(thetaCall(fresh), 4),
                     vega |-> toFixed(vega(fresh), 4),
                     rho |-> toFixed(rhoCall(fresh), 4)],
        chart |-> generateSurfaceData(S, K, r, T, sigma)]

\* C5: once a handler has returned, the five echoed values, the seven
\* metrics and the whole surface (x, y and z) are those of one evaluation of
\* the values the controls hold; nothing of an earlier evaluation is left
C5_OneSnapshot ==
    calls # {} =>
        /\ displays = Evaluation(inputs).displays
        /\ metrics = Evaluation(inputs).metrics
        /\ chart = Evaluation(inputs).chart

\* Three controls have been moved, one after the other, and the page shows
\* numbers
C5_Witness ==
    /\ domLoaded
    /\ inputs.S = Numeral(120 * SCALE)
    /\ inputs.K = Numeral(90 * SCALE)
    /\ inputs.sigma = Numeral(500000)
    /\ metrics.call.nf = "fin"
    /\ Len(chart.x) = 31

\* T zero or negative, sigma zero or negative, or a field that is NaN
InvalidInput(a) ==
    \/ \E f \in Controls : IsNaN(a[f])
    \/ IsFinite(a.T) /\ a.T.v <= 0
    \/ IsFinite(a.sigma) /\ a.sigma.v <= 0

\* C6, as claimed: on an object constructed with an invalid input d1, d2 and
\* whatever a method returns are NaN or infinite
C6_AllNonFinite ==
    (instance # NoObject /\ InvalidInput(args)) =>
        /\ ~IsFinite(instance.d1)
        /\ ~IsFinite(instance.d2)
        /\ \A op \in Methods : results[op] # NotCalled => ~IsFinite(results[op])

\* C6, amended: every method returns a Number whatever the input; with a NaN
\* field or a negative T, d1, d2 and every method's result are NaN; with T
\* zero or sigma zero, d1, d2 and gamma are NaN or infinite; with nothing
\* invalid but a negative sigma, d1, d2 and every method's result are finite
C6_Propagation ==
    instance # NoObject =>
        /\ \A op \in Methods :
              results[op] # NotCalled =>
                  (IsFinite(results[op]) \/ IsInf(results[op]) \/ IsNaN(results[op]))
        /\ ((\E f \in Controls : IsNaN(args[f])) \/ (IsFinite(args.T) /\ args.T.v < 0)) =>
              /\ IsNaN(instance.d1)
              /\ IsNaN(instance.d2)
              /\ \A op \in Methods : results[op] # NotCalled => IsNaN(results[op])
        /\ (args.T = Fin(0) \/ args.sigma = Fin(0)) =>
              /\ ~IsFinite(instance.d1)
              /\ ~IsFinite(instance.d2)
              /\ results.gamma # NotCalled => ~IsFinite(results.gamma)
        /\ (\E a \in ValidArgs : args = [a EXCEPT !.sigma = Neg(a.sigma)]) =>
              /\ IsFinite(instance.d1)
              /\ IsFinite(instance.d2)
              /\ \A op \in Methods : results[op] # NotCalled => IsFinite(results[op])

\* With T zero and S above K, d1 is infinite, gamma has returned NaN, and
\* vega and callPrice have returned finite numbers
C6_Witness ==
    /\ instance # NoObject
    /\ args.T = Fin(0)
    /\ args.S = Fin(110 * SCALE)
    /\ IsInf(instance.d1)
    /\ IsNaN(results.gamma)
    /\ IsFinite(results.vega)
    /\ IsFinite(results.callPrice)

\* C7: put-call parity: for S, K, T, sigma > 0 and any r, callPrice() minus
\* putPrice() of one object is S - K * e^(-rT), to within 1e-4 of the larger
\* of the two terms
C7_PutCallParity ==
    (/\ args \in ValidArgs
     /\ results.callPrice # NotCalled
     /\ results.putPrice # NotCalled) =>
        LET discounted == Mul(args.K, Exp(Mul(Neg(args.r), args.T)))
        IN Within(Sub(results.callPrice, results.putPrice),
                  Sub(args.S, discounted),
                  Max(args.S, discounted).v \div 10^4)

\* Both prices have been read from one object with a negative rate, where
\* the call is worth less than the put
C7_Witness ==
    /\ args \in ValidArgs
    /\ args.r = Fin(-20000)
    /\ IsFinite(results.callPrice)
    /\ IsFinite(results.putPrice)
    /\ results.callPrice.v < results.putPrice.v

\* C8: cdf(x) + cdf(-x) is 1 to within 1e-6, at x = 0 too
C8_CdfSymmetry ==
    (cdfResults.x # NotCalled /\ cdfResults.negx # NotCalled) =>
        Within(Add(cdfResults.x, cdfResults.negx), Fin(SCALE), 1)

\* cdf has been called at 0 and at -0
C8_Witness ==
    /\ cdfArg = Fin(0)
    /\ IsFinite(cdfResults.x)
    /\ IsFinite(cdfResults.negx)

\* C9, as claimed: for S = 100, K = 100, r = 0.05, T = 1, sigma = 0.2 the
\* object has d1 = 0.35 and d2 = 0.15 and its methods return 10.45 for
\* callPrice, 5.57 for putPrice, 0.6368 for deltaCall, 0.0188 for gamma and
\* 0.3752 for vega, each to the decimals shown
C9_Scenario ==
    (/\ instance # NoObject
     /\ args = [S |-> Fin(100 * SCALE), K |-> Fin(100 * SCALE), r |-> Fin(50000),
                T |-> Fin(SCALE), sigma |-> Fin(200000)]) =>
        /\ toFixed(instance.d1, 2).v = 35
        /\ toFixed(instance.d2, 2).v = 15
        /\ results.callPrice # NotCalled => toFixed(results.callPrice, 2).v = 1045
        /\ results.putPrice # NotCalled => toFixed(results.putPrice, 2).v = 557
        /\ results.deltaCall # NotCalled => toFixed(results.deltaCall, 4).v = 6368
        /\ results.gamma # NotCalled => toFixed(results.gamma, 4).v = 188
        /\ results.vega # NotCalled => toFixed(results.vega, 4).v = 3752

\* C10: for every number T given to the sampler, zero, next to zero and
\* negative among them, each of the 961 passes constructs its object with a
\* time that is a number >= 0.01, the time of its row of y, so that the
\* divisor sigma * sqrt(T) of the pass is not zero for a sigma that is not
C10_GridTimeFloor ==
    (chart.z # <<>> /\ IsFinite(args.T)) =>
        LET st == SurfaceSteps(args.S, args.T)
        IN \A i \in 1..(stepsT + 1) : \A j \in 1..(stepsS + 1) :
              LET this == bs_temp(st, args.K, args.r, args.sigma, i - 1, j - 1)
              IN /\ IsFinite(this.T)
                 /\ this.T.v >= 10000
                 /\ this.T = chart.y[i]
                 /\ IsFinite(Sqrt(this.T))
                 /\ Sqrt(this.T).v > 0
                 /\ IsFinite(chart.z[i][j])

\* A surface has been sampled for a T that is not positive, and its first
\* row is at 0.01 exactly
C10_Witness ==
    /\ Len(chart.y) = stepsT + 1
    /\ IsFinite(args.T)
    /\ args.T.v <= 0
    /\ chart.y[1] = Fin(10000)
    /\ IsFinite(chart.z[1][16])

\* C11: a method's return value depends only on the five parameters its object
\* was constructed with. Any two calls of the same method on objects built
\* from equal (S, K, r, T, sigma), be they two calls on one object or calls on
\* different objects, have returned the same value (NaN counting as the same
\* value as NaN), whatever was built, called or evaluated in between.
C11_DependsOnParametersOnly ==
    \A r1, r2 \in returned :
        r1.args = r2.args /\ r1.op = r2.op => r1.value = r2.value

\* Both objects built from equal parameters have answered the same method,
\* object 1 after another method had been called on it or on another object
C11_Witness ==
    /\ objects[1] # NoObject
    /\ objects[2] # NoObject
    /\ objects[1].args = objects[2].args
    /\ \E r1, r2, r3 \in returned :
          /\ r1.object = 1 /\ r2.object = 2 /\ r1.op = r2.op
          /\ r3 \notin {r1, r2}

\* C12: once a fetch has succeeded and set data-loaded to 'true', a click on
\* the About button starts no fetch and leaves the modal body as it is; when a
\* fetch fails the flag is unset and the error message is shown, and the
\* click that follows a failure (with no fetch pending) starts a fetch.
C12_LoadedOnce ==
    [][/\ dataLoaded = Attribute("true") /\ lastEvent' = "about"
           => pending' = pending /\ modalBodyHTML' = modalBodyHTML
       /\ lastEvent' = "catch"
           => dataLoaded' = NoAttribute /\ modalBodyHTML' = "error"
       /\ (/\ outcomes # <<>>
           /\ outcomes[Len(outcomes)] = "failure"
           /\ pending = 0
           /\ lastEvent' = "about")
           => pending' = 1]_vars

\* C13: while every fetch has succeeded, the markdown has been fetched at most
\* once (a click with a fetch pending starts none) and rendered at most once,
\* exactly once when the fetch has settled.
C13_FetchedOnce ==
    (\A i \in 1..Len(outcomes) : outcomes[i] = "success")
        => /\ Fetches <= 1
           /\ Renders <= 1
           /\ pending = 0 /\ Fetches = 1 => Renders = 1

\* The string of a number from -100 to 0
InRange(value) ==
    /\ "numeral" \in DOMAIN value
    /\ value.numeral
    /\ value.v >= -100 * SCALE
    /\ value.v <= 0

\* C14: after every down, move or up the gallery's percentage, once written,
\* and its prevPercentage are numbers in [-100, 0], and a move that finds
\* mouseDownAt "0" leaves both attributes as they were.
C14_PercentageRange ==
    [][/\ dataset'.percentage # NoAttribute
           => InRange(dataset'.percentage.value)
       /\ InRange(dataset'.prevPercentage.value)
       /\ dataset.mouseDownAt = Attribute(Numeral(0)) /\ handled' = "move"
           => /\ dataset'.percentage = dataset.percentage
              /\ dataset'.prevPercentage = dataset.prevPercentage]_vars

====
